---- MODULE Spec2Model ----
(***************************************************************************)
(* Model of the JLCPCB parts server (src/server.py): the lookup tools, the *)
(* filter compiler and row presenter of search_parts, and the image        *)
(* selector of get_part_image, run by a host that dispatches tool calls.   *)
(*                                                                         *)
(* Text that the program inspects character by character (LIKE operands,   *)
(* URLs, JSON strings and keys) is a sequence of one-character strings;    *)
(* text the program only produces (cells, tables, SQL) is a string.        *)
(***************************************************************************)
EXTENDS Integers, Sequences, FiniteSets, TLC

VARIABLES
  store,     \* the catalogue behind conn: categories, manufacturers, components
  workload,  \* workload[p]: which tool calls the client sends to worker p
  pc,        \* pc[p]: where worker p's invocation stands
  req,       \* req[p]: the tool call worker p is serving
  loc,       \* loc[p]: the handler's local variables
  ret,       \* ret[p]: what the handler returned (or that it raised)
  nq,        \* nq[p]: conn.execute calls of the invocation
  nf,        \* nf[p]: urlopen requests of the invocation
  log        \* log[p]: lines the invocation printed to stderr

vars == <<store, workload, pc, req, loc, ret, nq, nf, log>>

(***************************************************************************)
(* Bounds of the model.                                                    *)
(***************************************************************************)
NumProcs == 2
MaxTiers == 2
MaxImages == 3

Procs == 1..NumProcs

(***************************************************************************)
(* Python values.                                                          *)
(***************************************************************************)
None == << >>
Some(v) == <<v>>

Raised == [ok |-> FALSE]
Ok(v) == [ok |-> TRUE, v |-> v]

RECURSIVE StrOf(_)
StrOf(cs) == IF cs = << >> THEN "" ELSE Head(cs) \o StrOf(Tail(cs))

RECURSIVE Join(_, _)
Join(sep, ss) ==
  IF ss = << >> THEN ""
  ELSE IF Len(ss) = 1 THEN ss[1]
  ELSE ss[1] \o sep \o Join(sep, Tail(ss))

(* JSON documents as json.loads returns them. *)
JNull == [t |-> "null"]
JBool(b) == [t |-> "bool", b |-> b]
JInt(n) == [t |-> "int", n |-> n]
JNum(m, e) == [t |-> "num", m |-> m, e |-> e]      \* the float m / 10^e
JStr(cs) == [t |-> "str", s |-> cs]
JArr(vs) == [t |-> "arr", items |-> vs]
JObj(kvs) == [t |-> "obj", pairs |-> kvs]          \* pairs [k, val], insertion order
KV(k, v) == [k |-> k, val |-> v]

(* A TEXT column: NULL, text json.loads rejects, or the text of a document. *)
SqlNull == [kind |-> "null"]
SqlEmpty == [kind |-> "empty"]
SqlGarbage == [kind |-> "garbage"]
SqlJson(j) == [kind |-> "json", v |-> j]

json_loads(col) == IF col.kind = "json" THEN Ok(col.v) ELSE Raised

HasKey(obj, k) == \E i \in 1..Len(obj.pairs) : obj.pairs[i].k = k
GetKey(obj, k) == obj.pairs[CHOOSE i \in 1..Len(obj.pairs) : obj.pairs[i].k = k].val

(* d[k] for a string key k. *)
Subscript(d, k) ==
  IF d.t = "obj" /\ HasKey(d, k) THEN Ok(GetKey(d, k)) ELSE Raised

(* d[0] *)
First(d) ==
  CASE d.t = "arr" /\ Len(d.items) > 0 -> Ok(d.items[1])
    [] d.t = "str" /\ Len(d.s) > 0 -> Ok(JStr(<<d.s[1]>>))
    [] OTHER -> Raised

(* for p in d *)
Iter(d) ==
  CASE d.t = "arr" -> Ok(d.items)
    [] d.t = "obj" -> Ok([i \in 1..Len(d.pairs) |-> JStr(d.pairs[i].k)])
    [] d.t = "str" -> Ok([i \in 1..Len(d.s) |-> JStr(<<d.s[i]>>)])
    [] OTHER -> Raised

RECURSIVE Pow10(_)
Pow10(e) == IF e = 0 THEN 1 ELSE 10 * Pow10(e - 1)

RECURSIVE Digits(_, _)
Digits(n, width) ==
  IF width = 0 THEN "" ELSE Digits(n \div 10, width - 1) \o ToString(n % 10)

(* repr of the float m / 10^e, for 0 <= m / 10^e < 10^16 and not below 10^-4
   unless zero: the shortest decimal, with at least one fractional digit. *)
RECURSIVE FloatRepr(_, _)
FloatRepr(m, e) ==
  IF e > 0 /\ m % 10 = 0 THEN FloatRepr(m \div 10, e - 1)
  ELSE IF e = 0 THEN ToString(m) \o ".0"
  ELSE ToString(m \div Pow10(e)) \o "." \o Digits(m % Pow10(e), e)

RECURSIVE PyRepr(_), ReprItems(_), ReprPairs(_)
PyRepr(j) ==
  CASE j.t = "null" -> "None"
    [] j.t = "bool" -> IF j.b THEN "True" ELSE "False"
    [] j.t = "int" -> ToString(j.n)
    [] j.t = "num" -> FloatRepr(j.m, j.e)
    [] j.t = "str" -> "'" \o StrOf(j.s) \o "'"
    [] j.t = "arr" -> "[" \o ReprItems(j.items) \o "]"
    [] j.t = "obj" -> "{" \o ReprPairs(j.pairs) \o "}"

ReprItems(vs) ==
  IF vs = << >> THEN ""
  ELSE IF Len(vs) = 1 THEN PyRepr(vs[1])
  ELSE PyRepr(vs[1]) \o ", " \o ReprItems(Tail(vs))

ReprPairs(kvs) ==
  IF kvs = << >> THEN ""
  ELSE LET one == "'" \o StrOf(kvs[1].k) \o "': " \o PyRepr(kvs[1].val)
       IN IF Len(kvs) = 1 THEN one ELSE one \o ", " \o ReprPairs(Tail(kvs))

(* f"{v}" *)
PyStr(j) == IF j.t = "str" THEN StrOf(j.s) ELSE PyRepr(j)

(***************************************************************************)
(* Row presenter of search_parts.                                          *)
(***************************************************************************)
K_qFrom == <<"q", "F", "r", "o", "m">>
K_qTo == <<"q", "T", "o">>
K_price == <<"p", "r", "i", "c", "e">>
K_attributes == <<"a", "t", "t", "r", "i", "b", "u", "t", "e", "s">>
K_images == <<"i", "m", "a", "g", "e", "s">>

NoInfo == "No info"

(* `if not p['qFrom']` for `if p['qFrom'] is None`. *)
BoundText_Falsy(b) ==
  IF b.t = "null" \/ (b.t = "int" /\ b.n = 0) THEN "" ELSE PyStr(b)

(* One pass of the loop body over a tier p. *)
BoundText(b) == IF b.t = "null" THEN "" ELSE PyStr(b)

TierText(p) ==
  IF p.t # "obj" THEN Raised
  ELSE IF ~HasKey(p, K_qFrom) \/ ~HasKey(p, K_qTo) \/ ~HasKey(p, K_price) THEN Raised
  ELSE Ok(BoundText(GetKey(p, K_qFrom)) \o "-" \o BoundText(GetKey(p, K_qTo))
          \o " " \o PyStr(GetKey(p, K_price)) \o "USD/pc")

(* The price cell and whether the except branch ran. *)
RenderPrice(col) ==
  LET d == json_loads(col)
      it == Iter(d.v)
      ts == [i \in 1..Len(it.v) |-> TierText(it.v[i])]
  IN IF ~d.ok THEN [cell |-> NoInfo, failed |-> TRUE]
     ELSE IF ~it.ok THEN [cell |-> NoInfo, failed |-> TRUE]
     ELSE IF \E i \in 1..Len(ts) : ~ts[i].ok THEN [cell |-> NoInfo, failed |-> TRUE]
     ELSE [cell |-> Join(", ", [i \in 1..Len(ts) |-> ts[i].v]), failed |-> FALSE]

(* The attributes cell and whether the except branch ran. *)
RenderAttrs(col) ==
  LET d == json_loads(col)
      at == Subscript(d.v, K_attributes)
      kvs == at.v.pairs
  IN IF ~d.ok THEN [cell |-> NoInfo, failed |-> TRUE]
     ELSE IF ~at.ok THEN [cell |-> NoInfo, failed |-> TRUE]
     ELSE IF at.v.t # "obj" THEN [cell |-> NoInfo, failed |-> TRUE]
     ELSE [cell |-> Join(", ", [i \in 1..Len(kvs) |->
                                  StrOf(kvs[i].k) \o ":" \o PyStr(kvs[i].val)]),
           failed |-> FALSE]

(***************************************************************************)
(* Image selector of get_part_image.                                       *)
(***************************************************************************)
Find(s, c) == IF \E i \in 1..Len(s) : s[i] = c
              THEN CHOOSE i \in 1..Len(s) : s[i] = c /\ \A j \in 1..(i - 1) : s[j] # c
              ELSE 0

RFind(s, c) == IF \E i \in 1..Len(s) : s[i] = c
               THEN CHOOSE i \in 1..Len(s) : s[i] = c /\ \A j \in (i + 1)..Len(s) : s[j] # c
               ELSE 0

Before(s, c) == IF Find(s, c) = 0 THEN s ELSE SubSeq(s, 1, Find(s, c) - 1)

(* A URL's scheme and authority are carried as one element, longer than a
   character, at its head; a URL without one is relative. *)
HasOrigin(u) == u # << >> /\ Len(u[1]) > 1

(* urllib.parse.urlparse(url).path: what follows the authority, without the
   fragment, the query and the ;parameters of the last segment. *)
UrlPath(u) ==
  LET rest == IF HasOrigin(u) THEN Tail(u) ELSE u
      noq == Before(Before(rest, "#"), "?")
      slash == RFind(noq, "/")
      semi == Find(SubSeq(noq, slash + 1, Len(noq)), ";")
  IN IF semi = 0 THEN noq ELSE SubSeq(noq, 1, slash + semi - 1)

(* os.path.splitext(path)[1]: from the last dot of the last segment, unless
   only dots precede it in that segment. *)
SplitExt(path) ==
  LET sep == RFind(path, "/")
      dot == RFind(path, ".")
  IN IF dot > sep /\ \E i \in (sep + 1)..(dot - 1) : path[i] # "."
     THEN SubSeq(path, dot, Len(path))
     ELSE << >>

RemoveDots(s) == SelectSeq(s, LAMBDA c : c # ".")

(* The alias forgotten. *)
NormalizeExt_None(ext) == ext

NormalizeExt(ext) == IF ext = <<"j", "p", "g">> THEN <<"j", "p", "e", "g">> ELSE ext

FormatOf(url) == NormalizeExt(RemoveDots(SplitExt(UrlPath(url))))

(* The first image for the middle one. *)
MiddleIndex_First(n) == 0

(* int(len(images) / 2) *)
MiddleIndex(n) == n \div 2

(* Lines 101-106: the URL picked from extra and its format tag, or Raised
   when any step raises. n is len(images), idx the 0-based position. *)
SelectImage(col) ==
  LET d == json_loads(col)
      lst == Subscript(d.v, K_images)
      images == First(lst.v)
      n == Len(images.v.pairs)
      idx == MiddleIndex(n)
      url == images.v.pairs[idx + 1].val
  IN IF ~d.ok THEN Raised
     ELSE IF ~lst.ok THEN Raised
     ELSE IF ~images.ok THEN Raised
     ELSE IF images.v.t # "obj" THEN Raised
     ELSE IF idx + 1 > n THEN Raised
     ELSE IF url.t # "str" THEN Raised
     ELSE Ok([url |-> url.s, format |-> FormatOf(url.s), n |-> n, idx |-> idx])

(***************************************************************************)
(* The store's comparison operators.                                       *)
(***************************************************************************)
UpperCase == <<"A", "B", "C", "D", "E", "F", "G", "H", "I", "J", "K", "L", "M",
               "N", "O", "P", "Q", "R", "S", "T", "U", "V", "W", "X", "Y", "Z">>
LowerCase == <<"a", "b", "c", "d", "e", "f", "g", "h", "i", "j", "k", "l", "m",
               "n", "o", "p", "q", "r", "s", "t", "u", "v", "w", "x", "y", "z">>

Fold(c) == IF Find(UpperCase, c) = 0 THEN c ELSE LowerCase[Find(UpperCase, c)]

(* text LIKE pattern: % any run, _ any one character, ASCII case folded. *)
RECURSIVE Like(_, _)
Like(pat, s) ==
  IF pat = << >> THEN s = << >>
  ELSE IF Head(pat) = "%" THEN Like(Tail(pat), s) \/ (s # << >> /\ Like(pat, Tail(s)))
  ELSE /\ s # << >>
       /\ (Head(pat) = "_" \/ Fold(Head(pat)) = Fold(Head(s)))
       /\ Like(Tail(pat), Tail(s))

IntParam(n) == [t |-> "int", n |-> n]
TextParam(s) == [t |-> "text", s |-> s]

(***************************************************************************)
(* Filter compiler of search_parts.                                        *)
(***************************************************************************)
SelectFrom ==
  "SELECT lcsc,category_id,manufacturer_id,mfr,basic,preferred,description,package,stock,price,extra FROM components WHERE "

(* `x is not None` and `if x:` on an optional field. *)
IsNotNone(opt) == opt # None
Truthy(opt) == opt # None /\ opt[1] # << >>

(* The literal chosen by the field's presence, not its value. *)
BoolClause_Presence(col, opt) == col \o "=" \o (IF opt # None THEN "1" ELSE "0")

BoolClause(col, opt) == col \o "=" \o (IF opt[1] = TRUE THEN "1" ELSE "0")

WhereClauses(q) ==
  <<"category_id=?">>
  \o (IF IsNotNone(q.manufacturer_id) THEN <<"manufacturer_id=?">> ELSE << >>)
  \o (IF Truthy(q.manufacturer_pn) THEN <<"mfr LIKE ?">> ELSE << >>)
  \o (IF Truthy(q.description) THEN <<"description LIKE ?">> ELSE << >>)
  \o (IF Truthy(q.package) THEN <<"package=?">> ELSE << >>)
  \o (IF IsNotNone(q.is_basic_parts) THEN <<BoolClause("basic", q.is_basic_parts)>> ELSE << >>)
  \o (IF IsNotNone(q.is_preferred_parts)
      THEN <<BoolClause("preferred", q.is_preferred_parts)>> ELSE << >>)

QueryParams(q) ==
  <<IntParam(q.category_id)>>
  \o (IF IsNotNone(q.manufacturer_id) THEN <<IntParam(q.manufacturer_id[1])>> ELSE << >>)
  \o (IF Truthy(q.manufacturer_pn) THEN <<TextParam(q.manufacturer_pn[1])>> ELSE << >>)
  \o (IF Truthy(q.description) THEN <<TextParam(q.description[1])>> ELSE << >>)
  \o (IF Truthy(q.package) THEN <<TextParam(q.package[1])>> ELSE << >>)

AndSep == " AND "

(* The query as the pieces it is concatenated from: SelectFrom, then the
   clauses with the separator between them. *)
RECURSIVE Separated(_, _)
Separated(sep, clauses) ==
  IF Len(clauses) <= 1 THEN clauses
  ELSE <<clauses[1], sep>> \o Separated(sep, Tail(clauses))

QueryOf(q) == <<SelectFrom>> \o Separated(AndSep, WhereClauses(q))

QueryText(query) == StrOf(query)

(***************************************************************************)
(* conn.execute for the components query: the WHERE expression evaluated   *)
(* on a row, binding the parameters to the placeholders left to right.     *)
(***************************************************************************)
Placeholders == {"category_id=?", "manufacturer_id=?", "mfr LIKE ?",
                 "description LIKE ?", "package=?"}

UsesParam(clause) == clause \in Placeholders

Pred(clause, param, row) ==
  CASE clause = "category_id=?" -> param.t = "int" /\ row.category_id = param.n
    [] clause = "manufacturer_id=?" -> param.t = "int" /\ row.manufacturer_id = param.n
    [] clause = "mfr LIKE ?" -> param.t = "text" /\ Like(param.s, row.mfr)
    [] clause = "description LIKE ?" -> param.t = "text" /\ Like(param.s, row.description)
    [] clause = "package=?" -> param.t = "text" /\ row.package = param.s
    [] clause = "basic=1" -> row.basic = 1
    [] clause = "basic=0" -> row.basic = 0
    [] clause = "preferred=1" -> row.preferred = 1
    [] clause = "preferred=0" -> row.preferred = 0

(* AND binds tighter than OR. cur is the value of the conjunction so far. *)
RECURSIVE Where(_, _, _, _)
Where(toks, params, row, cur) ==
  LET c == Head(toks)
      v == cur /\ Pred(c, IF UsesParam(c) THEN Head(params) ELSE None, row)
      ps == IF UsesParam(c) THEN Tail(params) ELSE params
  IN IF Len(toks) = 1 THEN v
     ELSE IF toks[2] = AndSep THEN Where(SubSeq(toks, 3, Len(toks)), ps, row, v)
     ELSE v \/ Where(SubSeq(toks, 3, Len(toks)), ps, row, TRUE)

NumPlaceholders(query) == Cardinality({i \in 1..Len(query) : UsesParam(query[i])})

(* sqlite3 refuses a statement whose bindings do not match its placeholders. *)
Bindable(query, params) == NumPlaceholders(query) = Len(params)

SelectComponents(components, query, params) ==
  SelectSeq(components, LAMBDA row : Where(Tail(query), params, row, TRUE))

(***************************************************************************)
(* Lookup tools.                                                           *)
(***************************************************************************)
RetPending == [kind |-> "pending"]
RetNone == [kind |-> "none"]
RetRaise == [kind |-> "raise"]
RetStr(s) == [kind |-> "str", s |-> s]
RetImage(url, format) == [kind |-> "image", url |-> url, format |-> format]

(* cursor.fetchone() *)
FetchOne(rows) == IF rows = << >> THEN None ELSE Some(rows[1])

CategoryLine(r) ==
  "|" \o ToString(r.id) \o "|" \o StrOf(r.category) \o "|" \o StrOf(r.subcategory) \o "|"

ManufacturerLine(r) == "|" \o ToString(r.id) \o "|" \o StrOf(r.name) \o "|"

list_categories(db) ==
  RetStr("|Category ID|Category Name|Subcategory Name|\n|--|--|--|\n"
         \o Join("\n", [i \in 1..Len(db.categories) |-> CategoryLine(db.categories[i])]))

list_manufacturers(db) ==
  RetStr("|Manufacturer ID|Manufacturer Name|\n|--|--|\n"
         \o Join("\n", [i \in 1..Len(db.manufacturers) |-> ManufacturerLine(db.manufacturers[i])]))

CategoryFound(result) ==
  RetStr("Category: " \o StrOf(result[1].category)
         \o ", Subcategory: " \o StrOf(result[1].subcategory))

get_category(db, category_id) ==
  LET result == FetchOne(SelectSeq(db.categories, LAMBDA r : r.id = category_id))
  IN IF result # None THEN CategoryFound(result) ELSE RetNone

get_manufacturer(db, manufacturer_id) ==
  LET result == FetchOne(SelectSeq(db.manufacturers, LAMBDA r : r.id = manufacturer_id))
  IN IF result # None THEN RetStr(StrOf(result[1].name)) ELSE RetNone

(* The table returned without the test for lines. *)
ManufacturerTable_Always(lines) ==
  RetStr("|Manufacturer ID|Manufacturer Name|\n" \o Join("\n", lines))

ManufacturerTable(lines) ==
  IF lines # << >>
  THEN RetStr("|Manufacturer ID|Manufacturer Name|\n" \o Join("\n", lines))
  ELSE RetNone

search_manufacturer(db, name) ==
  LET result == SelectSeq(db.manufacturers,
                          LAMBDA r : Like(<<"%">> \o name \o <<"%">>, r.name))
  IN ManufacturerTable([i \in 1..Len(result) |-> ManufacturerLine(result[i])])

get_datasheet_url(db, part_id) ==
  LET result == FetchOne(SelectSeq(db.components, LAMBDA r : r.lcsc = part_id))
  IN IF result # None
     THEN (IF result[1].datasheet = None THEN RetNone
           ELSE RetStr(StrOf(result[1].datasheet[1])))
     ELSE RetNone

(***************************************************************************)
(* search_parts: one line per row, then the table.                         *)
(***************************************************************************)
SearchHeader ==
  "|Part Number|Category ID|Manufacturer ID|Manufacturer PN|Basic Parts|Preferred Parts|Description|Package|Stock|Price|Attributes|\n|--|--|--|--|--|--|--|--|--|--|--|\n"

(* The eleven cells of the line of row r. *)
Cells(r) ==
  <<ToString(r.lcsc), ToString(r.category_id), ToString(r.manufacturer_id),
    StrOf(r.mfr), ToString(r.basic), ToString(r.preferred), StrOf(r.description),
    StrOf(r.package), ToString(r.stock), RenderPrice(r.price).cell,
    RenderAttrs(r.extra).cell>>

LineOf(cells) == "|" \o Join("|", cells) \o "|"

(* Lines the loop prints to stderr for row r. *)
Printed(r) ==
  (IF RenderPrice(r.price).failed THEN 1 ELSE 0)
  + (IF RenderAttrs(r.extra).failed THEN 1 ELSE 0)

RECURSIVE SumPrinted(_)
SumPrinted(rows) == IF rows = << >> THEN 0 ELSE Printed(rows[1]) + SumPrinted(Tail(rows))

SearchResult(lines) ==
  RetStr(SearchHeader \o Join("\n", [i \in 1..Len(lines) |-> LineOf(lines[i])]))

(***************************************************************************)
(* Catalogues the server may be started on.                                *)
(***************************************************************************)
Component(lcsc, cat, man, mfr, basic, preferred, description, package, price, extra) ==
  [lcsc |-> lcsc, category_id |-> cat, manufacturer_id |-> man, mfr |-> mfr,
   basic |-> basic, preferred |-> preferred, description |-> description,
   package |-> package, stock |-> 100 * lcsc,
   datasheet |-> IF basic = 1 THEN Some(<<"d", ".", "p", "d", "f">>) ELSE None,
   price |-> price, extra |-> extra]

Tier(qFrom, qTo, price) ==
  JObj(<<KV(K_qFrom, qFrom), KV(K_qTo, qTo), KV(K_price, price)>>)

Origin == "https://assets.example"

(* The URL of image i of a manifest. *)
ImageUrl(i) == <<Origin, "/", ToString(i), ".", "j", "p", "g">>

Manifest(urls) ==
  JObj([i \in 1..Len(urls) |-> KV(<<"s", ToString(i)>>, urls[i])])

Attributes ==
  JObj(<<KV(<<"R">>, JStr(<<"1", "0", "k">>)), KV(<<"T">>, JStr(<<"1", "%">>))>>)

Extra(attributes, images) ==
  SqlJson(JObj(<<KV(K_attributes, attributes), KV(K_images, images)>>))

PlainPrice ==
  SqlJson(JArr(<<Tier(JInt(1), JInt(9), JNum(15, 1)), Tier(JInt(10), JNull, JInt(1))>>))

PlainExtra ==
  Extra(Attributes, JArr(<<Manifest([i \in 1..3 |-> JStr(ImageUrl(i))])>>))

Categories ==
  <<[id |-> 1, category |-> <<"R", "e", "s">>, subcategory |-> <<"C", "h", "i", "p">>],
    [id |-> 5, category |-> <<"C", "a", "p">>, subcategory |-> <<"M", "L", "C", "C">>]>>

Manufacturers ==
  <<[id |-> 1, name |-> <<"Y", "a", "g", "e", "o">>],
    [id |-> 2, name |-> <<"U", "n", "i">>]>>

T_0603 == <<"0", "6", "0", "3">>
T_0402 == <<"0", "4", "0", "2">>
T_10k == <<"1", "0", "k">>

(* Rows that differ in every filtered column, some with empty text. *)
PlainComponents ==
  <<Component(1, 1, 1, <<"R", "C", "1">>, 1, 0, T_10k, T_0603, PlainPrice, PlainExtra),
    Component(2, 1, 2, <<"r", "c", "2">>, 0, 1, <<"1", "k">>, T_0402, PlainPrice, PlainExtra),
    Component(3, 1, 1, << >>, 0, 0, << >>, << >>, SqlNull, SqlNull),
    Component(4, 1, 2, <<"X">>, 1, 1, <<"1", "0", "k", "5">>, T_0603, PlainPrice, PlainExtra),
    Component(5, 5, 1, <<"R", "C", "5">>, 1, 0, T_10k, T_0603, PlainPrice, PlainExtra),
    Component(6, 5, 2, <<"r", "c", "6">>, 0, 0, T_10k, T_0603, PlainPrice, PlainExtra)>>

PlainStore ==
  [categories |-> Categories, manufacturers |-> Manufacturers,
   components |-> PlainComponents]

(* price columns: well-formed tier sequences up to MaxTiers tiers, and others. *)
TierPrices == {JNum(15, 1), JNum(150, 2), JInt(2)}
Tiers == {Tier(f, t, c) : f \in {JNull, JInt(0)}, t \in {JNull, JInt(10)}, c \in TierPrices}

TierSeqs == UNION {[1..n -> Tiers] : n \in 0..MaxTiers}

WellFormedPrices == {SqlJson(JArr(ts)) : ts \in TierSeqs}

OtherPrices ==
  {SqlNull, SqlEmpty, SqlGarbage,
   SqlJson(JNull), SqlJson(JInt(5)), SqlJson(JStr(<<"o", "o", "p", "s">>)),
   SqlJson(JStr(<< >>)), SqlJson(JObj(<< >>)),
   SqlJson(JObj(<<KV(K_price, JInt(1))>>)),
   SqlJson(Tier(JInt(1), JInt(9), JInt(2))),
   SqlJson(JArr(<<JInt(1)>>)), SqlJson(JArr(<<JArr(<< >>)>>)),
   SqlJson(JArr(<<JObj(<<KV(K_qFrom, JInt(1)), KV(K_qTo, JInt(9))>>)>>)),
   SqlJson(JArr(<<JObj(<<KV(K_qTo, JInt(9)), KV(K_price, JInt(2))>>)>>)),
   SqlJson(JArr(<<Tier(JInt(1), JInt(9), JInt(2)), JNull>>)),
   SqlJson(JArr(<<Tier(JStr(<<"x">>), JBool(TRUE), JStr(<<"2">>))>>)),
   SqlJson(JArr(<<Tier(JArr(<<JInt(1)>>), JObj(<< >>), JNull)>>))}

PriceColumns == WellFormedPrices \cup OtherPrices

(* extra columns: the attributes and the images vary separately. *)
AttributeValues ==
  {Attributes, JObj(<< >>), JObj(<<KV(<<"R">>, JInt(10)), KV(<<"P">>, JNum(25, 2))>>),
   JArr(<< >>), JArr(<<Attributes>>), JStr(<<"R">>), JNull, JInt(0)}

Urls ==
  {ImageUrl(1),
   <<Origin, "/", "a", ".", "p", "n", "g">>,
   <<Origin, "/", "a", ".", "J", "P", "G">>,
   <<Origin, "/", "a", ".", "x", "y", "z">>,
   <<Origin, "/", "a", ".", "j", "p", "g", "?", "v", "=", "1", ".", "2">>,
   <<Origin, "/", "a", ".", "j", "p", "g", "#", "f", ".", "x">>,
   <<Origin, "/", "a", ".", "j", "p", "g", ";", "t", "=", "b", ".", "c">>,
   <<Origin, "/", "v", ".", "2", "/", "a">>,
   <<Origin, "/", "v", ".", "2", "/", ".", "p", "n", "g">>,
   <<Origin, "/", "a", ".", "t", "a", "r", ".", "g", "z">>,
   <<Origin, "/", "a">>,
   <<Origin, "/", "a", ".">>,
   <<Origin>>,
   <<"a", ".", "p", "n", "g">>,
   << >>}

ImageValues ==
  {JArr(<<Manifest([i \in 1..n |-> JStr(ImageUrl(i))])>>) : n \in 0..MaxImages}
  \cup {JArr(<<Manifest(<<JStr(u)>>)>>) : u \in Urls}
  \cup {JArr(<< >>), JArr(<<JNull>>), JArr(<<JStr(ImageUrl(1))>>),
        JArr(<<JArr(<<JStr(ImageUrl(1))>>)>>),
        Manifest(<<JStr(ImageUrl(1))>>), JStr(ImageUrl(1)), JNull,
        JArr(<<Manifest(<<JInt(7)>>)>>), JArr(<<Manifest(<<JNull>>)>>),
        JArr(<<Manifest(<<JStr(ImageUrl(1)), JNull, JStr(ImageUrl(3))>>)>>)}

OtherExtras ==
  {SqlNull, SqlEmpty, SqlGarbage, SqlJson(JNull), SqlJson(JArr(<< >>)),
   SqlJson(JStr(<<"x">>)), SqlJson(JObj(<< >>)),
   SqlJson(JObj(<<KV(K_attributes, Attributes)>>)),
   SqlJson(JObj(<<KV(K_images, JArr(<<Manifest(<<JStr(ImageUrl(1))>>)>>))>>))}

ExtraColumns ==
  {Extra(a, JArr(<<Manifest(<<JStr(ImageUrl(1))>>)>>)) : a \in AttributeValues}
  \cup {Extra(Attributes, i) : i \in ImageValues}
  \cup OtherExtras

(* The columns paired with every value of the other column. *)
KeyPrices == {PlainPrice, SqlGarbage, SqlJson(JArr(<< >>))}
KeyExtras == {PlainExtra, SqlGarbage, SqlJson(JObj(<< >>))}

(* Row 7, in category 5 between rows 5 and 6, carries the documents. *)
DocStore(price, extra) ==
  [categories |-> Categories, manufacturers |-> Manufacturers,
   components |->
     <<PlainComponents[5],
       Component(7, 5, 1, <<"P">>, 1, 1, T_10k, T_0402, price, extra),
       PlainComponents[6]>>]

DocStores ==
  {DocStore(c, e) : c \in PriceColumns, e \in KeyExtras}
  \cup {DocStore(c, e) : c \in KeyPrices, e \in ExtraColumns}

(***************************************************************************)
(* Tool calls the client sends.                                            *)
(***************************************************************************)
SearchQuery(category_id, manufacturer_id, manufacturer_pn, description, package, is_basic_parts, is_preferred_parts) ==
  [category_id |-> category_id, manufacturer_id |-> manufacturer_id,
   manufacturer_pn |-> manufacturer_pn, description |-> description,
   package |-> package, is_basic_parts |-> is_basic_parts,
   is_preferred_parts |-> is_preferred_parts]

Tool(op) == [op |-> op]
ById(op, id) == [op |-> op, id |-> id]
ByName(name) == [op |-> "search_manufacturer", name |-> name]
Search(q) == [op |-> "search_parts", q |-> q]

TriState == {None, Some(TRUE), Some(FALSE)}

(* Every filter over a few values of each field: unset, empty text, a value. *)
SearchQueries ==
  {SearchQuery(c, m, pn, d, pk, b, pr) :
     c \in {1, 5, 7}, m \in {None, Some(1), Some(2)},
     pn \in {None, Some(<< >>), Some(<<"r", "c", "%">>)},
     d \in {None, Some(<< >>), Some(<<"1", "0", "k", "_">>)},
     pk \in {None, Some(<< >>), Some(T_0603)},
     b \in TriState, pr \in TriState}

OnlyCategory(c) == SearchQuery(c, None, None, None, None, None, None)

PartIds == {1, 3, 5, 7, 99}

BaseCalls ==
  {Tool("list_categories"), Tool("list_manufacturers")}
  \cup {ById("get_category", i) : i \in {1, 7}}
  \cup {ById("get_manufacturer", i) : i \in {1, 9}}
  \cup {ByName(n) : n \in {<<"a">>, <<"z", "z">>}}
  \cup {ById("get_datasheet_url", i) : i \in PartIds}
  \cup {ById("get_part_image", i) : i \in PartIds}
  \cup {Search(OnlyCategory(c)) : c \in {5, 7}}

ConcurrentCalls ==
  {Tool("list_categories"), Tool("list_manufacturers"),
   ById("get_category", 1), ById("get_manufacturer", 9), ByName(<<"a">>),
   ById("get_datasheet_url", 1),
   ById("get_part_image", 1), ById("get_part_image", 3), ById("get_part_image", 99),
   Search(OnlyCategory(5)),
   Search(SearchQuery(1, None, Some(<< >>), None, None, Some(TRUE), None)),
   Search(SearchQuery(1, None, Some(<<"r", "c", "%">>), None, None, Some(TRUE), None))}

(* The calls of a workload. *)
CallsOf(w) ==
  CASE w = "filters" -> BaseCalls \cup {Search(q) : q \in SearchQueries}
    [] w = "base" -> BaseCalls
    [] w = "concurrent" -> ConcurrentCalls
    [] OTHER -> {}

(***************************************************************************)
(* The handlers, one invocation per worker at a time.                      *)
(***************************************************************************)
NoLocals ==
  [executed |-> "no", query |-> << >>, params |-> << >>, rows |-> << >>,
   lines |-> << >>, found |-> FALSE, fetched |-> "no", extra |-> SqlNull, url |-> << >>, format |-> << >>,
   n |-> 0, idx |-> 0]

Idle ==
  /\ pc = [p \in Procs |-> "idle"]
  /\ req = [p \in Procs |-> Tool("none")]
  /\ loc = [p \in Procs |-> NoLocals]
  /\ ret = [p \in Procs |-> RetPending]
  /\ nq = [p \in Procs |-> 0]
  /\ nf = [p \in Procs |-> 0]
  /\ log = [p \in Procs |-> 0]

(* The handler of worker p returns r (or raises) having printed k lines. *)
Finish(p, r, k) ==
  /\ pc' = [pc EXCEPT ![p] = "done"]
  /\ ret' = [ret EXCEPT ![p] = r]
  /\ log' = [log EXCEPT ![p] = @ + k]

Goto(p, label) ==
  /\ pc' = [pc EXCEPT ![p] = label]
  /\ UNCHANGED <<ret, log>>

Serving(p, op) == pc[p] = "called" /\ req[p].op = op

Execute(p) == nq' = [nq EXCEPT ![p] = @ + 1]

(* conn.execute returned (ok) or raised. *)
Executed(p, ok) == [loc EXCEPT ![p].executed = IF ok THEN "ok" ELSE "failed"]

Call(p) ==
  /\ pc[p] = "idle"
  /\ \E r \in CallsOf(workload[p]) : req' = [req EXCEPT ![p] = r]
  /\ Goto(p, "called")
  /\ UNCHANGED <<store, workload, loc, nq, nf>>

(* A lookup: one query, whose failure the handler lets through. *)
Lookup(p, r) ==
  /\ Execute(p)
  /\ \E ok \in BOOLEAN :
       /\ Finish(p, IF ok THEN r ELSE RetRaise, 0)
       /\ loc' = Executed(p, ok)
  /\ UNCHANGED <<store, workload, req, nf>>

ListCategories(p) ==
  /\ Serving(p, "list_categories")
  /\ Lookup(p, list_categories(store))

ListManufacturers(p) ==
  /\ Serving(p, "list_manufacturers")
  /\ Lookup(p, list_manufacturers(store))

GetCategory(p) ==
  /\ Serving(p, "get_category")
  /\ Lookup(p, get_category(store, req[p].id))

GetManufacturer(p) ==
  /\ Serving(p, "get_manufacturer")
  /\ Lookup(p, get_manufacturer(store, req[p].id))

SearchManufacturer(p) ==
  /\ Serving(p, "search_manufacturer")
  /\ Lookup(p, search_manufacturer(store, req[p].name))

GetDatasheetUrl(p) ==
  /\ Serving(p, "get_datasheet_url")
  /\ Lookup(p, get_datasheet_url(store, req[p].id))

(* get_part_image, line 98: the query inside the try. *)
ImageQuery(p) ==
  /\ Serving(p, "get_part_image")
  /\ Execute(p)
  /\ LET result == FetchOne(SelectSeq(store.components,
                                      LAMBDA r : r.lcsc = req[p].id))
     IN \E ok \in BOOLEAN :
          IF ~ok THEN Finish(p, RetNone, 1) /\ loc' = Executed(p, FALSE)
          ELSE IF result = None THEN Finish(p, RetNone, 0) /\ loc' = Executed(p, TRUE)
          ELSE /\ Goto(p, "image_row")
               /\ loc' = [Executed(p, TRUE) EXCEPT ![p].found = TRUE,
                                                    ![p].extra = result[1].extra]
  /\ UNCHANGED <<store, workload, req, nf>>

(* get_part_image, lines 101-106. *)
ImageSelect(p) ==
  /\ pc[p] = "image_row"
  /\ LET sel == SelectImage(loc[p].extra)
     IN IF ~sel.ok THEN Finish(p, RetNone, 1) /\ UNCHANGED loc
        ELSE /\ Goto(p, "image_url")
             /\ loc' = [loc EXCEPT ![p].url = sel.v.url, ![p].format = sel.v.format,
                                   ![p].n = sel.v.n, ![p].idx = sel.v.idx]
  /\ UNCHANGED <<store, workload, req, nq, nf>>

(* A failed request sent again. *)
ImageFetch_Retry(p) ==
  /\ pc[p] = "image_url"
  /\ HasOrigin(loc[p].url)
  /\ nf' = [nf EXCEPT ![p] = @ + 1]
  /\ \E ok \in BOOLEAN :
       IF ok THEN /\ Finish(p, RetImage(loc[p].url, loc[p].format), 0)
                  /\ loc' = [loc EXCEPT ![p].fetched = "ok"]
       ELSE UNCHANGED <<pc, ret, log, loc>>
  /\ UNCHANGED <<store, workload, req, nq>>

(* get_part_image, line 108: urlopen refuses a URL without a scheme before
   sending anything; a request sent may fail. *)
ImageFetch(p) ==
  /\ pc[p] = "image_url"
  /\ IF ~HasOrigin(loc[p].url) THEN Finish(p, RetNone, 1) /\ UNCHANGED <<nf, loc>>
     ELSE /\ nf' = [nf EXCEPT ![p] = @ + 1]
          /\ \E ok \in BOOLEAN :
               IF ok THEN /\ Finish(p, RetImage(loc[p].url, loc[p].format), 0)
                          /\ loc' = [loc EXCEPT ![p].fetched = "ok"]
               ELSE /\ Finish(p, RetNone, 1)
                    /\ loc' = [loc EXCEPT ![p].fetched = "failed"]
  /\ UNCHANGED <<store, workload, req, nq>>

(* search_parts, lines 132-157. *)
SearchCompile(p) ==
  /\ Serving(p, "search_parts")
  /\ loc' = [loc EXCEPT ![p].query = QueryOf(req[p].q),
                        ![p].params = QueryParams(req[p].q)]
  /\ Goto(p, "compiled")
  /\ UNCHANGED <<store, workload, req, nq, nf>>

(* search_parts, line 160. *)
SearchExecute(p) ==
  /\ pc[p] = "compiled"
  /\ Execute(p)
  /\ \E ok \in BOOLEAN :
       IF ok /\ Bindable(loc[p].query, loc[p].params)
       THEN /\ loc' = [Executed(p, TRUE) EXCEPT ![p].rows =
                         SelectComponents(store.components, loc[p].query, loc[p].params)]
            /\ Goto(p, "rows")
       ELSE Finish(p, RetRaise, 0) /\ loc' = Executed(p, FALSE)
  /\ UNCHANGED <<store, workload, req, nf>>

(* search_parts, lines 161-196. *)
SearchPresent(p) ==
  /\ pc[p] = "rows"
  /\ LET lines == [i \in 1..Len(loc[p].rows) |-> Cells(loc[p].rows[i])]
     IN /\ loc' = [loc EXCEPT ![p].lines = lines]
        /\ Finish(p, SearchResult(lines), SumPrinted(loc[p].rows))
  /\ UNCHANGED <<store, workload, req, nq, nf>>

(* The host hands the result to the client; the worker is free again. *)
Reply(p) ==
  /\ pc[p] = "done"
  /\ pc' = [pc EXCEPT ![p] = "idle"]
  /\ req' = [req EXCEPT ![p] = Tool("none")]
  /\ loc' = [loc EXCEPT ![p] = NoLocals]
  /\ ret' = [ret EXCEPT ![p] = RetPending]
  /\ nq' = [nq EXCEPT ![p] = 0]
  /\ nf' = [nf EXCEPT ![p] = 0]
  /\ log' = [log EXCEPT ![p] = 0]
  /\ UNCHANGED <<store, workload>>

Next ==
  \E p \in Procs :
    \/ Call(p)
    \/ ListCategories(p)
    \/ ListManufacturers(p)
    \/ GetCategory(p)
    \/ GetManufacturer(p)
    \/ SearchManufacturer(p)
    \/ GetDatasheetUrl(p)
    \/ ImageQuery(p)
    \/ ImageSelect(p)
    \/ ImageFetch(p)
    \/ SearchCompile(p)
    \/ SearchExecute(p)
    \/ SearchPresent(p)
    \/ Reply(p)

(* One worker, every filter, on the plain catalogue. *)
Init ==
  /\ store = PlainStore
  /\ workload = [p \in Procs |-> IF p = 1 THEN "filters" ELSE "none"]
  /\ Idle

Spec == Init /\ [][Next]_vars

(* One worker, on every catalogue whose row 7 carries some price and extra. *)
InitDocs ==
  /\ store \in DocStores
  /\ workload = [p \in Procs |-> IF p = 1 THEN "base" ELSE "none"]
  /\ Idle

SpecDocs == InitDocs /\ [][Next]_vars

(* Every worker busy, calls interleaved, on the plain catalogue. *)
InitConcurrent ==
  /\ store = PlainStore
  /\ workload = [p \in Procs |-> "concurrent"]
  /\ Idle

SpecConcurrent == InitConcurrent /\ [][Next]_vars

(***************************************************************************)
(* Properties.                                                             *)
(***************************************************************************)
Searching(p) == pc[p] # "idle" /\ req[p].op = "search_parts"

(* The query of worker p's search_parts has been built. *)
Compiled(p) == Searching(p) /\ pc[p] # "called"

(* The query of worker p's search_parts has returned its rows. *)
HasRows(p) == Searching(p) /\ loc[p].executed = "ok"

(* search_parts of worker p has returned its table. *)
Presented(p) == HasRows(p) /\ pc[p] = "done"

IsSet(opt) == opt # None

Count(b) == IF b THEN 1 ELSE 0

NumSet(q) ==
  Count(IsSet(q.manufacturer_id)) + Count(IsSet(q.manufacturer_pn))
  + Count(IsSet(q.description)) + Count(IsSet(q.package))
  + Count(IsSet(q.is_basic_parts)) + Count(IsSet(q.is_preferred_parts))

(* The predicates and the separators of a query. *)
ClausesOf(query) == [i \in 1..(Len(query) \div 2) |-> query[2 * i]]
SeparatorsOf(query) == {query[2 * i + 1] : i \in 1..((Len(query) - 1) \div 2)}

BitOf(opt) == IF opt[1] THEN 1 ELSE 0

(* Row r satisfies the predicate of every field of q that is set. *)
Satisfies(q, r) ==
  /\ r.category_id = q.category_id
  /\ IsSet(q.manufacturer_id) => r.manufacturer_id = q.manufacturer_id[1]
  /\ IsSet(q.manufacturer_pn) => Like(q.manufacturer_pn[1], r.mfr)
  /\ IsSet(q.description) => Like(q.description[1], r.description)
  /\ IsSet(q.package) => r.package = q.package[1]
  /\ IsSet(q.is_basic_parts) => r.basic = BitOf(q.is_basic_parts)
  /\ IsSet(q.is_preferred_parts) => r.preferred = BitOf(q.is_preferred_parts)

(* C1: the WHERE clause of search_parts holds 1 + (number of optional fields
   that are set) predicates, category_id first, joined by AND only, and the
   rows returned are the components that satisfy every one of them; an
   optional text field set to the empty string counts as set. *)
C1_PredicatePerSetField ==
  \A p \in Procs :
    HasRows(p) =>
      LET q == req[p].q
          query == loc[p].query
      IN /\ Len(ClausesOf(query)) = 1 + NumSet(q)
         /\ ClausesOf(query)[1] = "category_id=?"
         /\ SeparatorsOf(query) \subseteq {" AND "}
         /\ loc[p].rows = SelectSeq(store.components, LAMBDA r : Satisfies(q, r))

(* The values of the fields of q that are set, booleans aside, in field order. *)
SetValues(q) ==
  <<IntParam(q.category_id)>>
  \o (IF IsSet(q.manufacturer_id) THEN <<IntParam(q.manufacturer_id[1])>> ELSE << >>)
  \o (IF IsSet(q.manufacturer_pn) THEN <<TextParam(q.manufacturer_pn[1])>> ELSE << >>)
  \o (IF IsSet(q.description) THEN <<TextParam(q.description[1])>> ELSE << >>)
  \o (IF IsSet(q.package) THEN <<TextParam(q.package[1])>> ELSE << >>)

SetPattern(q) ==
  <<IsSet(q.manufacturer_id), IsSet(q.manufacturer_pn), IsSet(q.description),
    IsSet(q.package), q.is_basic_parts, q.is_preferred_parts>>

(* C2: two filters with the same set/unset pattern and the same booleans give
   the same query text; the values travel only in the parameter list, one per
   placeholder, in the order of the predicates. *)
C2_TextIndependentOfValues ==
  /\ \A p \in Procs, r \in Procs :
       Compiled(p) /\ Compiled(r) /\ SetPattern(req[p].q) = SetPattern(req[r].q)
         => QueryText(loc[p].query) = QueryText(loc[r].query)
  /\ \A p \in Procs :
       Compiled(p) =>
         /\ loc[p].params = SetValues(req[p].q)
         /\ Len(loc[p].params) = NumPlaceholders(loc[p].query)

TriMatches(opt, bit) == opt = None \/ bit = BitOf(opt)

WithoutBooleans(q) == [q EXCEPT !.is_basic_parts = None, !.is_preferred_parts = None]

BasicOnly5 == SearchQuery(5, None, None, None, None, Some(TRUE), None)

(* C3: the boolean filters are tri-state. Unset adds no predicate on the
   column and keeps rows of either value; true keeps the rows whose column is
   1 and false those whose column is 0, of the rows the other fields select.
   {category_id: 5, is_basic_parts: true} on a catalogue with one basic and
   one non-basic component in category 5 returns the basic one. *)
C3_TriStateBooleans ==
  \A p \in Procs :
    HasRows(p) =>
      LET q == req[p].q
          w == WithoutBooleans(q)
          others == SelectComponents(store.components, QueryOf(w), QueryParams(w))
          clauses == {loc[p].query[i] : i \in 1..Len(loc[p].query)}
      IN /\ loc[p].rows =
              SelectSeq(others, LAMBDA r : /\ TriMatches(q.is_basic_parts, r.basic)
                                           /\ TriMatches(q.is_preferred_parts, r.preferred))
         /\ q.is_basic_parts = None => clauses \cap {"basic=0", "basic=1"} = {}
         /\ q.is_preferred_parts = None => clauses \cap {"preferred=0", "preferred=1"} = {}
         /\ (q = BasicOnly5 /\ store = PlainStore) => loc[p].rows = <<PlainComponents[5]>>

C3_Witness ==
  \E p \in Procs :
    /\ Presented(p)
    /\ req[p].q = BasicOnly5
    /\ loc[p].rows = <<PlainComponents[5]>>

(* No row of the table the lookup of worker p reads matches its key. *)
NoMatch(p) ==
  CASE req[p].op = "get_category" ->
         \A i \in 1..Len(store.categories) : store.categories[i].id # req[p].id
    [] req[p].op = "get_manufacturer" ->
         \A i \in 1..Len(store.manufacturers) : store.manufacturers[i].id # req[p].id
    [] req[p].op = "search_manufacturer" ->
         \A i \in 1..Len(store.manufacturers) :
           ~Like(<<"%">> \o req[p].name \o <<"%">>, store.manufacturers[i].name)
    [] req[p].op = "get_datasheet_url" ->
         \A i \in 1..Len(store.components) : store.components[i].lcsc # req[p].id
    [] req[p].op = "search_parts" -> loc[p].rows = << >>
    [] OTHER -> FALSE

Returned(p) == pc[p] = "done" /\ loc[p].executed = "ok"

(* C4 as stated: a lookup or filter whose query succeeds and matches no row
   returns the not-found value, search parts included. *)
C4_NotFoundEverywhere ==
  \A p \in Procs : Returned(p) /\ NoMatch(p) => ret[p] = RetNone

(* C4: get category, get manufacturer, search manufacturers and get datasheet
   URL return the not-found value, and raise nothing, when the query succeeds
   and matches no row; search parts then returns the table of the header
   alone, and raises nothing. *)
C4_NotFoundOfLookups ==
  \A p \in Procs :
    Returned(p) /\ NoMatch(p) =>
      IF req[p].op = "search_parts" THEN ret[p] = RetStr(SearchHeader)
      ELSE ret[p] = RetNone

C4_Witness ==
  \E p \in Procs :
    /\ Returned(p) /\ NoMatch(p)
    /\ req[p] = ById("get_category", 7)
    /\ ret[p] = RetNone

IsBound(j) == j.t \in {"int", "null"}
IsNumber(j) == j.t \in {"int", "num"}

WellFormedTier(j) ==
  /\ j.t = "obj"
  /\ HasKey(j, K_qFrom) /\ HasKey(j, K_qTo) /\ HasKey(j, K_price)
  /\ IsBound(GetKey(j, K_qFrom)) /\ IsBound(GetKey(j, K_qTo))
  /\ IsNumber(GetKey(j, K_price))

(* The column holds a sequence of tiers {qFrom, qTo, price}. *)
WellFormedPrice(col) ==
  /\ col.kind = "json"
  /\ col.v.t = "arr"
  /\ \A i \in 1..Len(col.v.items) : WellFormedTier(col.v.items[i])

(* The column holds an object whose attributes map strings to strings or numbers. *)
WellFormedAttrs(col) ==
  /\ col.kind = "json"
  /\ col.v.t = "obj"
  /\ HasKey(col.v, K_attributes)
  /\ GetKey(col.v, K_attributes).t = "obj"
  /\ \A i \in 1..Len(GetKey(col.v, K_attributes).pairs) :
       GetKey(col.v, K_attributes).pairs[i].val.t \in {"str", "int", "num"}

(* Malformed, a key missing, of the wrong type, or empty. *)
PriceUnusable(col) == ~WellFormedPrice(col) \/ col.v.items = << >>
AttrsUnusable(col) == ~WellFormedAttrs(col) \/ GetKey(col.v, K_attributes).pairs = << >>

PriceCell(cells) == cells[10]
AttrsCell(cells) == cells[11]

(* C5: in search_parts the price cell and the attributes cell of a row are
   decoded independently with a fallback: a price (resp. extra.attributes)
   that is malformed, lacks a key, has the wrong type or is empty gives
   exactly "No info" in that cell, nothing is raised, the other cell is
   rendered as if nothing had failed, and every row still has its line. *)
C5_FallbackPerCell ==
  \A p \in Procs :
    Presented(p) =>
      LET rows == loc[p].rows
          lines == loc[p].lines
      IN /\ ret[p].kind = "str"
         /\ Len(lines) = Len(rows)
         /\ \A i \in 1..Len(rows) :
              /\ PriceUnusable(rows[i].price) => PriceCell(lines[i]) = "No info"
              /\ AttrsUnusable(rows[i].extra) => AttrsCell(lines[i]) = "No info"
         /\ \A i \in 1..Len(rows), j \in 1..Len(rows) :
              /\ rows[i].price = rows[j].price => PriceCell(lines[i]) = PriceCell(lines[j])
              /\ rows[i].extra = rows[j].extra => AttrsCell(lines[i]) = AttrsCell(lines[j])

NumberText(j) == IF j.t = "int" THEN ToString(j.n) ELSE FloatRepr(j.m, j.e)
OpenOr(j) == IF j.t = "null" THEN "" ELSE ToString(j.n)

TierCell(j) ==
  OpenOr(GetKey(j, K_qFrom)) \o "-" \o OpenOr(GetKey(j, K_qTo)) \o " "
  \o NumberText(GetKey(j, K_price)) \o "USD/pc"

RECURSIVE TiersCell(_)
TiersCell(ts) ==
  IF ts = << >> THEN ""
  ELSE IF Len(ts) = 1 THEN TierCell(ts[1])
  ELSE TierCell(ts[1]) \o ", " \o TiersCell(Tail(ts))

UpTo10 == SqlJson(JArr(<<Tier(JNull, JInt(10), JNum(15, 1))>>))

(* C6: the price cell of a well-formed tier sequence is its tiers, in order,
   each "<qFrom>-<qTo> <price>USD/pc" with a null bound as the empty string,
   joined by ", "; equal sequences render to equal text; the tier
   {qFrom: null, qTo: 10, price: 1.5} renders as "-10 1.5USD/pc". *)
C6_PriceCell ==
  \A p \in Procs :
    Presented(p) =>
      LET rows == loc[p].rows
          lines == loc[p].lines
      IN /\ \A i \in 1..Len(rows) :
              WellFormedPrice(rows[i].price) =>
                /\ i \in DOMAIN lines
                /\ PriceCell(lines[i]) = TiersCell(rows[i].price.v.items)
                /\ rows[i].price = UpTo10 => PriceCell(lines[i]) = "-10 1.5USD/pc"
         /\ \A i \in 1..Len(rows), j \in 1..Len(rows) :
              (WellFormedPrice(rows[i].price) /\ rows[i].price = rows[j].price)
                => PriceCell(lines[i]) = PriceCell(lines[j])

C6_Witness ==
  \E p \in Procs :
    /\ Presented(p)
    /\ \E i \in 1..Len(loc[p].rows) :
         /\ loc[p].rows[i].price = UpTo10
         /\ PriceCell(loc[p].lines[i]) = "-10 1.5USD/pc"

ImageCall(p) == pc[p] # "idle" /\ req[p].op = "get_part_image"

(* The row of the part worker p asks for. *)
PartRows(p) == SelectSeq(store.components, LAMBDA r : r.lcsc = req[p].id)

(* extra.images[0] of column col is a mapping. *)
HasManifest(col) ==
  /\ col.kind = "json"
  /\ col.v.t = "obj"
  /\ HasKey(col.v, K_images)
  /\ GetKey(col.v, K_images).t = "arr"
  /\ GetKey(col.v, K_images).items # << >>
  /\ GetKey(col.v, K_images).items[1].t = "obj"

ManifestOf(col) == GetKey(col.v, K_images).items[1].pairs

AllUrls(m) == \A i \in 1..Len(m) : m[i].val.t = "str"

(* Worker p's get_part_image is past the selection of line 102. *)
PastSelection(p) == ImageCall(p) /\ pc[p] \in {"image_url", "done"} /\ loc[p].found

(* C7: of an image mapping of n >= 1 URLs get_part_image selects the one at
   0-based position floor(n / 2) in iteration order, inside 0..n-1 (n = 3:
   index 1, n = 1: index 0); for n = 0 it returns not-found and fetches
   nothing. *)
C7_MiddleImage ==
  \A p \in Procs :
    (PastSelection(p) /\ HasManifest(loc[p].extra) /\ AllUrls(ManifestOf(loc[p].extra))) =>
      LET m == ManifestOf(loc[p].extra)
          n == Len(m)
      IN IF n = 0
         THEN pc[p] = "done" /\ ret[p] = RetNone /\ nf[p] = 0
         ELSE /\ loc[p].idx \in 0..(n - 1)
              /\ 2 * loc[p].idx <= n /\ n < 2 * loc[p].idx + 2
              /\ loc[p].url = m[loc[p].idx + 1].val.s
              /\ n = 3 => loc[p].idx = 1
              /\ n = 1 => loc[p].idx = 0

C7_Witness ==
  \E p \in Procs :
    /\ PastSelection(p) /\ HasManifest(loc[p].extra)
    /\ Len(ManifestOf(loc[p].extra)) = 3
    /\ loc[p].idx = 1
    /\ loc[p].url = ImageUrl(2)

KnownFormats ==
  {<<"j", "p", "e", "g">>, <<"p", "n", "g">>, <<"g", "i", "f">>, <<"w", "e", "b", "p">>}

(* Where worker p's get_part_image went wrong, if it did. *)
AbsentRow(p) == loc[p].executed = "ok" /\ ~loc[p].found
BadManifest(p) ==
  loc[p].found /\ ~(HasManifest(loc[p].extra) /\ ManifestOf(loc[p].extra) # << >>)
FetchFailed(p) == loc[p].fetched = "failed"
UnknownExtension(p) ==
  loc[p].found /\ SelectImage(loc[p].extra).ok /\ loc[p].format \notin KnownFormats

(* C8: every failure of get_part_image (absent row or extra, malformed JSON,
   missing or empty image mapping, fetch error, unknown extension of the
   selected URL) ends in the not-found value with a diagnostic logged, never
   in an image and never in an exception. *)
C8_FailuresToNotFound ==
  \A p \in Procs :
    (ImageCall(p) /\ pc[p] = "done"
       /\ (AbsentRow(p) \/ BadManifest(p) \/ FetchFailed(p) \/ UnknownExtension(p)))
      => ret[p] = RetNone /\ log[p] >= 1

Alias(ext) == IF ext = <<"j", "p", "g">> THEN <<"j", "p", "e", "g">> ELSE ext

AfterLastDot(s) == IF RFind(s, ".") = 0 THEN << >> ELSE SubSeq(s, RFind(s, ".") + 1, Len(s))

LastSegment(path) == SubSeq(path, RFind(path, "/") + 1, Len(path))

RECURSIVE WithoutLeadingDots(_)
WithoutLeadingDots(s) ==
  IF s # << >> /\ Head(s) = "." THEN WithoutLeadingDots(Tail(s)) ELSE s

ReturnedImage(p) == ImageCall(p) /\ pc[p] = "done" /\ ret[p].kind = "image"

(* C9 as stated: the format tag of a returned image is the text after the
   last dot of the URL's path, query string and fragment aside, with jpg as
   jpeg. *)
C9_AfterLastDotOfPath ==
  \A p \in Procs :
    ReturnedImage(p) => ret[p].format = Alias(AfterLastDot(UrlPath(ret[p].url)))

(* C9: the format tag of a returned image is the text after the last dot of
   the last segment of the URL's path, leading dots of the segment aside, and
   empty when there is none, with jpg as jpeg and nothing else changed; the
   path is taken without query string, fragment and ;parameters. *)
C9_ExtensionOfLastSegment ==
  \A p \in Procs :
    ReturnedImage(p) =>
      ret[p].format = Alias(AfterLastDot(WithoutLeadingDots(LastSegment(UrlPath(ret[p].url)))))

C9_Witness ==
  \E p \in Procs :
    /\ ReturnedImage(p)
    /\ ret[p].url = ImageUrl(1)
    /\ ret[p].format = <<"j", "p", "e", "g">>

(* C10: an invocation issues at most one query, and only get_part_image
   fetches, at most once, after its query returned a row and a URL was
   selected from a non-empty image mapping, whatever the other workers do. *)
C10_OneQueryOneFetch ==
  \A p \in Procs :
    /\ nq[p] <= 1
    /\ nf[p] <= 1
    /\ pc[p] \in {"idle", "called"} => nq[p] = 0 /\ nf[p] = 0
    /\ nf[p] >= 1 =>
         /\ req[p].op = "get_part_image"
         /\ nq[p] = 1
         /\ loc[p].executed = "ok"
         /\ PartRows(p) # << >>
         /\ HasManifest(loc[p].extra)
         /\ ManifestOf(loc[p].extra) # << >>
         /\ \E i \in 1..Len(ManifestOf(loc[p].extra)) :
              ManifestOf(loc[p].extra)[i].val = JStr(loc[p].url)

C10_Witness ==
  \E p \in Procs, r \in Procs :
    /\ p # r
    /\ nf[p] = 1
    /\ pc[r] \in {"image_row", "image_url", "compiled", "rows"}
    /\ nq[r] <= 1

====
